---------------------------- MODULE Spec2Model ----------------------------
(***************************************************************************)
(* pdf2md: the reading-order and region-sequencing pipeline.               *)
(*                                                                         *)
(*   src/src/pdf2md/order/boxes2order.py  box normalizer, reading order    *)
(*   src/src/pdf2md/ocr/ocr_imgbyimg.py   OCR wrapper                      *)
(*   src/src/pdf2md/llm/gemini.py         text-cleanup collaborator        *)
(*   src/src/pdf2md/pdf2md.py             pdf_md_transformer               *)
(*   src/src/app.py                       update_markdown, translate       *)
(*   src/src/llm/api.py                   md_text_iter                     *)
(*                                                                         *)
(* Text is a sequence of tokens (a token stands for a character or for a   *)
(* run of characters that no operation splits); lists are sequences;       *)
(* Python's 0-based list positions are kept as values and shifted by one   *)
(* where a TLA+ sequence is indexed.                                       *)
(***************************************************************************)
EXTENDS Integers, Sequences, FiniteSets, TLC

VARIABLES
    input,       \* pure-function specifications: the call under study
    output,      \* pure-function specifications: what the call gave
    pdf,         \* the document on disk: what the detector and the OCR engine see
    platform,    \* hp.platform, the configured text-cleanup provider
    attrs,       \* attributes present on the pdf_md_transformer object
    self_types,  \* self.types
    self_clips,  \* self.clips
    predict_run, \* the run of predict within the last call: its locals at the end
    clean_run,   \* the run of clean_text within the last call: locals and calls made
    translate_run, \* the run of translate or get_prompt that was the last call
    ret          \* the last call from outside: what it returned or raised

vars == <<input, output, pdf, platform, attrs, self_types, self_clips,
          predict_run, clean_run, translate_run, ret>>

fnVars == <<input, output>>
objVars == <<pdf, platform, attrs, self_types, self_clips, predict_run,
             clean_run, translate_run, ret>>

-----------------------------------------------------------------------------
(* Bounds of the model. *)

\* regions on one page (the N of the decoder and of the sequencer)
MaxBoxes == 3
\* boxes handed to the normalizer when it is studied on its own
MaxScaleBoxes == 2
\* pages of a multi-page document
MaxPages == 2

\* pixel coordinates the normalizer is studied on: 17-10 = 7 and 121-10 = 111
\* give the quotient 7/111, whose product with 999 is the integer 63
PixelValues == {10, 17, 121}

\* logit values of the reading-order model (ties included)
LogitValues == {0, 1}

-----------------------------------------------------------------------------
(* Sequences. *)

Range(s) == {s[i] : i \in 1..Len(s)}

RECURSIVE Sum(_)
Sum(s) == IF s = <<>> THEN 0 ELSE s[1] + Sum(Tail(s))

RECURSIVE Flatten(_)
Flatten(ss) == IF ss = <<>> THEN <<>> ELSE ss[1] \o Flatten(Tail(ss))

SetMin(S) == CHOOSE x \in S : \A y \in S : x <= y
SetMax(S) == CHOOSE x \in S : \A y \in S : y <= x

\* the list f[1], ..., f[n], built element by element
RECURSIVE List(_, _)
List(f, n) == IF n = 0 THEN <<>> ELSE Append(List(f, n - 1), f[n])

\* sequences over S of length lo..hi
SeqsOf(S, lo, hi) == UNION {[1..n -> S] : n \in lo..hi}

-----------------------------------------------------------------------------
(* IEEE-754 binary64 arithmetic, as far as boxes2order.py:74 uses it:      *)
(* (array - minimum) / (maximum - minimum) * 999 on an int64 array is a    *)
(* correctly rounded division of two integers followed by a correctly      *)
(* rounded multiplication by 999.  A double is kept as its 53-bit          *)
(* significand in five limbs (1 + 4*13 bits, most significant first) and   *)
(* the number of binary places `shift': value = significand * 2^(-52-shift)*)
(* Operands are integers 0 < a <= d < 2^13.                                *)

ScaleMax == 999
LimbBits == 13
Limb == 2 ^ LimbBits

\* least s with a * 2^s >= d: a * 2^s / d lies in [1, 2)
NormShift(a, d) ==
    CHOOSE s \in 0..LimbBits : a * 2 ^ s >= d /\ (s = 0 \/ a * 2 ^ (s - 1) < d)

\* number of binary digits of n
BitLen(n) == CHOOSE b \in 0..31 : n < 2 ^ b /\ (b = 0 \/ n >= 2 ^ (b - 1))

\* limbs m plus inc at the lowest limb, carries propagated; the top limb
\* takes the last carry
AddLow(m, inc) ==
    LET s4 == m[5] + inc
        s3 == m[4] + s4 \div Limb
        s2 == m[3] + s3 \div Limb
        s1 == m[2] + s2 \div Limb
        s0 == m[1] + s1 \div Limb
    IN  <<s0, s1 % Limb, s2 % Limb, s3 % Limb, s4 % Limb>>

\* fl(a / d), round to nearest, ties to even
FloatDiv(a, d) ==
    LET s  == NormShift(a, d)
        r0 == a * 2 ^ s - d
        t1 == r0 * Limb
        t2 == (t1 % d) * Limb
        t3 == (t2 % d) * Limb
        t4 == (t3 % d) * Limb
        t5 == 2 * (t4 % d)
        q == <<1, t1 \div d, t2 \div d, t3 \div d, t4 \div d>>
        roundBit == t5 >= d
        sticky == (t5 % d) # 0
        up == roundBit /\ (sticky \/ q[5] % 2 = 1)
        m == IF up THEN AddLow(q, 1) ELSE q
    IN  IF m[1] = 2 THEN [m |-> <<1, 0, 0, 0, 0>>, shift |-> s - 1]
        ELSE [m |-> m, shift |-> s]

\* fl(x * k) for an integer 0 < k < 2^13; the top limb of the result holds
\* the bits above 2^52, the bits rounded away are cleared
FloatMulInt(x, k) ==
    LET q4 == x.m[5] * k
        q3 == x.m[4] * k + q4 \div Limb
        q2 == x.m[3] * k + q3 \div Limb
        q1 == x.m[2] * k + q2 \div Limb
        p0 == x.m[1] * k + q1 \div Limb
        p == <<p0, q1 % Limb, q2 % Limb, q3 % Limb, q4 % Limb>>
        drop == BitLen(p0) - 1
        low == p[5] % 2 ^ drop
        roundBit == drop > 0 /\ low >= 2 ^ (drop - 1)
        sticky == drop > 0 /\ low % 2 ^ (drop - 1) # 0
        lsb == (p[5] \div 2 ^ drop) % 2
        up == roundBit /\ (sticky \/ lsb = 1)
        cut == [p EXCEPT ![5] = p[5] - low]
    IN  [m |-> IF up THEN AddLow(cut, 2 ^ drop) ELSE cut, shift |-> x.shift]

\* astype(int) of a finite non-negative double: truncation
FloatToInt(x) ==
    IF x.shift >= 0 THEN x.m[1] \div 2 ^ x.shift
    ELSE x.m[1] * 2 ^ (0 - x.shift)

\* int(a / d * 999) for integers 0 <= a <= d, 0 < d
ScaleValue(a, d) ==
    IF a = 0 THEN 0 ELSE FloatToInt(FloatMulInt(FloatDiv(a, d), ScaleMax))

\* astype(int) of NaN is undefined in C: the cast gives the most negative
\* integer where the conversion instruction signals an invalid operand
\* (x86, shown here at the width of a 32-bit C long; -2^63 with a 64-bit
\* int) and 0 where it saturates (AArch64).
NanCastOutcomes == {0, 0 - 2147483647 - 1}


-----------------------------------------------------------------------------
(* LayoutLmForReadingOrder.scale (boxes2order.py:60-76).                   *)
(* A box is <<xmin, ymin, xmax, ymax>>.                                    *)

Pool(boxes) == UNION {Range(b) : b \in Range(boxes)}

\* scale with the subtraction of the minimum forgotten
ScaleNotShifted(boxes, nanCast) ==
    IF boxes = <<>> THEN [raised |-> TRUE, boxes |-> <<>>]
    ELSE LET lo == SetMin(Pool(boxes))
             hi == SetMax(Pool(boxes))
         IN  [raised |-> FALSE,
              boxes |-> [i \in 1..Len(boxes) |->
                            [j \in 1..Len(boxes[i]) |->
                                IF hi = lo THEN nanCast
                                ELSE (boxes[i][j] * ScaleMax) \div (hi - lo)]]]

\* scale with the minimum and the maximum taken box by box
ScalePerBox(boxes, nanCast) ==
    IF boxes = <<>> THEN [raised |-> TRUE, boxes |-> <<>>]
    ELSE [raised |-> FALSE,
          boxes |-> [i \in 1..Len(boxes) |->
                        LET lo == SetMin(Range(boxes[i]))
                            hi == SetMax(Range(boxes[i]))
                        IN  [j \in 1..Len(boxes[i]) |->
                                IF hi = lo THEN nanCast
                                ELSE ScaleValue(boxes[i][j] - lo, hi - lo)]]]

\* array = (array - minimum) / (maximum - minimum) * 999; array.astype(int)
\* np.max of an empty array raises ValueError.  With maximum = minimum every
\* quotient is 0/0 = NaN (numpy warns, it does not raise), and the cast of
\* NaN gives nanCast.
Scale(boxes, nanCast) ==
    IF boxes = <<>> THEN [raised |-> TRUE, boxes |-> <<>>]
    ELSE LET lo == SetMin(Pool(boxes))
             hi == SetMax(Pool(boxes))
         IN  [raised |-> FALSE,
              boxes |-> [i \in 1..Len(boxes) |->
                            [j \in 1..Len(boxes[i]) |->
                                IF hi = lo THEN nanCast
                                ELSE ScaleValue(boxes[i][j] - lo, hi - lo)]]]

-----------------------------------------------------------------------------
(* The reading-order decoder.  parse_logits, boxes2inputs and              *)
(* prepare_inputs are imported from .aux (boxes2order.py:6), which is not  *)
(* among the source files: ParseLogits follows the decoder of the          *)
(* specification (4.2): one logit vector per box over the N rank           *)
(* positions, independent argmax, and a deterministic repair of            *)
(* collisions (the higher logit keeps the rank, then the lower original    *)
(* index; a box that loses takes its next best rank).                      *)
(* logits[i][r+1] is the logit of box i (1-based) for rank r (0-based).    *)

Logits(n) == [1..n -> [1..n -> LogitValues]]

\* rank q is tried before rank r by a box with logit vector row
Prefers(row, q, r) == row[q + 1] > row[r + 1] \/ (row[q + 1] = row[r + 1] /\ q < r)

\* the ranks 0..n-1 in the order a box tries them
Candidates(row, n) ==
    List([k \in 1..n |->
            CHOOSE r \in 0..(n - 1) :
                Cardinality({q \in 0..(n - 1) : Prefers(row, q, r)}) = k - 1], n)

\* the candidate lists of all boxes
CandidateLists(logits, n) == List([i \in 1..n |-> Candidates(logits[i], n)], n)

\* box i (holding rank r) gives way to box j holding the same rank
GivesWay(logits, i, j, r) ==
    logits[j][r + 1] > logits[i][r + 1] \/ (logits[j][r + 1] = logits[i][r + 1] /\ j < i)

\* ptr[i] is the position in its candidate list that box i has reached
RECURSIVE Repair(_, _, _, _)
Repair(logits, cand, n, ptr) ==
    LET held == List([i \in 1..n |-> cand[i][ptr[i]]], n)
        loses == {i \in 1..n : \E j \in 1..n :
                     j # i /\ held[j] = held[i] /\ GivesWay(logits, i, j, held[i])}
        next == List([i \in 1..n |-> IF i \in loses THEN ptr[i] + 1 ELSE ptr[i]], n)
    IN  IF loses = {} THEN [raised |-> FALSE, orders |-> held]
        ELSE IF \E i \in 1..n : next[i] > n THEN [raised |-> TRUE, orders |-> <<>>]
        ELSE Repair(logits, cand, n, next)

ParseLogits(logits, length) ==
    Repair(logits, CandidateLists(logits, length), length, [i \in 1..length |-> 1])

\* the model's answer to the prepared inputs: logits, or an error where a
\* normalized coordinate lies outside the range of its position embedding
ModelOutcomes(inputs, n) ==
    {[raised |-> FALSE, logits |-> l] : l \in Logits(n)}
    \cup (IF \E v \in Pool(inputs.boxes) : v < 0 \/ v > ScaleMax
          THEN {[raised |-> TRUE, logits |-> <<>>]} ELSE {})

\* what predict returns (or that it raised) once the pieces are known
ReadingOrderReturn(inputs, model, parsed) ==
    IF inputs.raised \/ model.raised \/ parsed.raised
    THEN [raised |-> TRUE, orders |-> <<>>]
    ELSE [raised |-> FALSE, orders |-> parsed.orders]

\* predict with the length of one box short
ReadingOrderPredictShort(boxes, nanCast, model) ==
    ReadingOrderReturn(Scale(boxes, nanCast), model,
        IF model.raised \/ boxes = <<>> THEN [raised |-> TRUE, orders |-> <<>>]
        ELSE ParseLogits(model.logits, Len(boxes) - 1))

\* LayoutLmForReadingOrder.predict (boxes2order.py:78-92)
ReadingOrderPredict(boxes, nanCast, model) ==
    ReadingOrderReturn(Scale(boxes, nanCast), model,
        IF model.raised THEN [raised |-> TRUE, orders |-> <<>>]
        ELSE ParseLogits(model.logits, Len(boxes)))

\* every order list the decoder can give for n boxes
DecodeOutcomes == [n \in 0..MaxBoxes |-> {ParseLogits(l, n) : l \in Logits(n)}]

\* predict answering the empty order for a page without boxes
ReadingOrderOutcomesEmptyPasses(boxes) ==
    IF boxes = <<>> THEN {[raised |-> FALSE, orders |-> <<>>]}
    ELSE UNION {{ReadingOrderReturn(Scale(boxes, nc), m, o) :
                    m \in {[raised |-> x.raised] : x \in ModelOutcomes(Scale(boxes, nc), 0)},
                    o \in DecodeOutcomes[Len(boxes)]} : nc \in NanCastOutcomes}

\* every way predict can end on these boxes
ReadingOrderOutcomes(boxes) ==
    UNION {LET inputs == Scale(boxes, nc)
           IN  {ReadingOrderReturn(inputs, m, o) :
                   m \in {[raised |-> x.raised] : x \in ModelOutcomes(inputs, 0)},
                   o \in DecodeOutcomes[Len(boxes)]} : nc \in NanCastOutcomes}

-----------------------------------------------------------------------------
(* The object before construction and while a pure function is studied.    *)

NotRun == [ran |-> FALSE]
NoRet == [op |-> "none", outcome |-> "none", value |-> <<>>]
Unset == [set |-> FALSE, v |-> <<>>]

ObjIdle ==
    /\ pdf = <<>>
    /\ platform = "unset"
    /\ attrs = {}
    /\ self_types = Unset
    /\ self_clips = Unset
    /\ predict_run = NotRun
    /\ clean_run = NotRun
    /\ translate_run = NotRun
    /\ ret = NoRet

NotCalled == [done |-> FALSE]

-----------------------------------------------------------------------------
(* The normalizer on its own: Init draws the boxes, ScaleApply scales.     *)

\* boxes over the studied coordinates: rectangles with xmin < xmax and
\* ymin < ymax, and single points
ScaleBoxes ==
    {b \in PixelValues \X PixelValues \X PixelValues \X PixelValues :
        b[1] < b[3] /\ b[2] < b[4]}
    \cup {<<v, v, v, v>> : v \in PixelValues}

InitScale ==
    /\ input \in {[fn |-> "scale", boxes |-> bs] :
                     bs \in SeqsOf(ScaleBoxes, 0, MaxScaleBoxes)}
    /\ output = NotCalled
    /\ ObjIdle

ScaleApply ==
    /\ input.fn = "scale"
    /\ output = NotCalled
    /\ \E nanCast \in NanCastOutcomes :
          LET r == Scale(input.boxes, nanCast)
          IN  output' = [done |-> TRUE, raised |-> r.raised, boxes |-> r.boxes]
    /\ UNCHANGED <<input, objVars>>

-----------------------------------------------------------------------------
(* The decoder on its own: Init draws the boxes and the model's logits,    *)
(* OrderApply runs LayoutLmForReadingOrder.predict.                        *)

BoxAt(i) == <<100 * i, 100, 100 * i + 50, 150>>
DegenerateBox == <<10, 10, 10, 10>>

OrderBoxLists(n) ==
    {[i \in 1..n |-> BoxAt(i)]} \cup (IF n = 1 THEN {<<DegenerateBox>>} ELSE {})

InitOrder ==
    /\ \E n \in 0..MaxBoxes :
          input \in {[fn |-> "order", boxes |-> bs, logits |-> l] :
                        bs \in OrderBoxLists(n), l \in Logits(n)}
    /\ output = NotCalled
    /\ ObjIdle

OrderApply ==
    /\ input.fn = "order"
    /\ output = NotCalled
    /\ \E nanCast \in NanCastOutcomes :
       \E raised \in {m.raised : m \in ModelOutcomes(Scale(input.boxes, nanCast), 0)} :
          LET r == ReadingOrderPredict(input.boxes, nanCast,
                       [raised |-> raised,
                        logits |-> IF raised THEN <<>> ELSE input.logits])
          IN  output' = [done |-> TRUE, raised |-> r.raised, orders |-> r.orders]
    /\ UNCHANGED <<input, objVars>>

-----------------------------------------------------------------------------
(* The masked clip on its own (pdf2md.py:112-117).  An image is its rows of *)
(* pixels, img[y + 1][x + 1] being the pixel in row y and column x; a box   *)
(* is <<xmin, ymin, xmax, ymax>> in pixels.                                 *)

\* the indices lo:hi selects from an axis of this size (0 <= lo, 0 <= hi)
SliceIndices(lo, hi, size) == {k \in 0..(size - 1) : lo <= k /\ k < hi}

\* the sub-image img[box[1]:box[3], box[0]:box[2]] alone
HardCrop(img, box) ==
    LET ys == SliceIndices(box[2], box[4], Len(img))
        xs == SliceIndices(box[1], box[3], Len(img[1]))
    IN  [clip |-> [y \in 1..Cardinality(ys) |->
                      [x \in 1..Cardinality(xs) |-> img[SetMin(ys) + y][SetMin(xs) + x]]],
         img |-> img]

\* clip = np.zeros_like(img); clip[box[1]:box[3], box[0]:box[2]] = img[same]
MaskedClip(img, box) ==
    LET ys == SliceIndices(box[2], box[4], Len(img))
        xs == SliceIndices(box[1], box[3], Len(img[1]))
    IN  [clip |-> [y \in 1..Len(img) |->
                      [x \in 1..Len(img[1]) |->
                          IF (y - 1) \in ys /\ (x - 1) \in xs THEN img[y][x] ELSE 0]],
         img |-> img]

\* side of the page images the clip is studied on, in pixels
ImgSide == 3

\* a page with every pixel different and none zero, and one with zero pixels
PageImages ==
    {[y \in 1..ImgSide |-> [x \in 1..ImgSide |-> (y - 1) * ImgSide + x]],
     [y \in 1..ImgSide |-> [x \in 1..ImgSide |-> (x + y) % 2]]}

\* boxes with xmin <= xmax and ymin <= ymax, up to one pixel beyond the page
ClipBoxes ==
    {b \in (0..(ImgSide + 1)) \X (0..(ImgSide + 1)) \X (0..(ImgSide + 1)) \X (0..(ImgSide + 1)) :
        b[1] <= b[3] /\ b[2] <= b[4]}

InitClip ==
    /\ input \in {[fn |-> "clip", img |-> img, box |-> b] : img \in PageImages, b \in ClipBoxes}
    /\ output = NotCalled
    /\ ObjIdle

ClipApply ==
    /\ input.fn = "clip"
    /\ output = NotCalled
    /\ LET r == MaskedClip(input.img, input.box)
       IN  output' = [done |-> TRUE, raised |-> FALSE, clip |-> r.clip, img |-> r.img]
    /\ UNCHANGED <<input, objVars>>


-----------------------------------------------------------------------------
(* Text: str.join, str.strip, str.replace on token sequences.              *)

NL == "\n"
Whitespace == {" ", NL}

\* sep.join(list)
RECURSIVE Join(_, _)
Join(sep, list) ==
    IF list = <<>> THEN <<>>
    ELSE IF Len(list) = 1 THEN list[1]
    ELSE list[1] \o sep \o Join(sep, Tail(list))

RECURSIVE LStrip(_)
LStrip(s) == IF s # <<>> /\ s[1] \in Whitespace THEN LStrip(Tail(s)) ELSE s

RECURSIVE RStrip(_)
RStrip(s) ==
    IF s # <<>> /\ s[Len(s)] \in Whitespace THEN RStrip(SubSeq(s, 1, Len(s) - 1))
    ELSE s

\* s.strip()
Strip(s) == RStrip(LStrip(s))

-----------------------------------------------------------------------------
(* md_text_iter (llm/api.py:7-17).  A file is the list of its lines as     *)
(* iteration over the file gives them, each with its newline.              *)

\* lines in a file, and the largest batch_size
MaxLines == 3
MaxBatch == 3

\* the loop without the yield of the lines left over after it
RECURSIVE MdTextLoopDropsRest(_, _, _, _, _)
MdTextLoopDropsRest(lines, batch_size, i, batch, yielded) ==
    IF i > Len(lines) THEN yielded
    ELSE LET b == Append(batch, Strip(lines[i]))
         IN  IF Len(b) = batch_size
             THEN MdTextLoopDropsRest(lines, batch_size, i + 1, <<>>, Append(yielded, b))
             ELSE MdTextLoopDropsRest(lines, batch_size, i + 1, b, yielded)

\* api.py:10-17 from line i on: the batches yielded, in order
RECURSIVE MdTextLoop(_, _, _, _, _)
MdTextLoop(lines, batch_size, i, batch, yielded) ==
    IF i > Len(lines)
    THEN IF batch # <<>> THEN Append(yielded, batch) ELSE yielded
    ELSE LET b == Append(batch, Strip(lines[i]))
         IN  IF Len(b) = batch_size
             THEN MdTextLoop(lines, batch_size, i + 1, <<>>, Append(yielded, b))
             ELSE MdTextLoop(lines, batch_size, i + 1, b, yielded)

\* list(md_text_iter(file_path, batch_size))
MdTextIter(lines, batch_size) == MdTextLoop(lines, batch_size, 1, <<>>, <<>>)

\* lines of a file: text, text between blanks, a blank line
FileLines == {<<"Attention", NL>>, <<" ", "is", " ", NL>>, <<NL>>}

\* a file whose last line has no newline
WithoutLastNewline(lines) ==
    IF lines = <<>> THEN lines
    ELSE [lines EXCEPT ![Len(lines)] = SubSeq(@, 1, Len(@) - 1)]

Files ==
    LET whole == SeqsOf(FileLines, 0, MaxLines)
    IN  whole \cup {WithoutLastNewline(f) : f \in whole}

InitIter ==
    /\ input \in {[fn |-> "md_text_iter", lines |-> f, batch_size |-> b] :
                     f \in Files, b \in 0..MaxBatch}
    /\ output = NotCalled
    /\ ObjIdle

IterApply ==
    /\ input.fn = "md_text_iter"
    /\ output = NotCalled
    /\ output' = [done |-> TRUE, raised |-> FALSE,
                  batches |-> MdTextIter(input.lines, input.batch_size)]
    /\ UNCHANGED <<input, objVars>>

InitFn == InitScale \/ InitOrder \/ InitClip \/ InitIter
NextFn == ScaleApply \/ OrderApply \/ ClipApply \/ IterApply
SpecFn == InitFn /\ [][NextFn]_vars

-----------------------------------------------------------------------------
(* The document and the engines that look at it.                           *)
(* A page is the list of its regions in the order the layout engine        *)
(* reports them; a region is [type, bbox, ink], ink being the text lines   *)
(* printed inside bbox.  An image is [page |-> p]; a clip is               *)
(* [page |-> p, box |-> b]: page p with everything outside b set to zero.  *)

\* the kinds of region a page is made of, in the order the engine reports them
Kinds ==
    << [type |-> "text",           ink |-> << <<"Attention">>, <<"is", " ">> >>],
       [type |-> "title",          ink |-> << <<" ", "Intro">> >>],
       [type |-> "figure caption", ink |-> << <<"Fig.1">> >>],
       [type |-> "text",           ink |-> << >>],
       [type |-> "figure",         ink |-> << <<"axis">> >>],
       [type |-> "table",          ink |-> << <<"cell">> >>] >>

\* n consecutive kinds from the start-th on, going round Kinds
Window(start, n) ==
    List([k \in 1..n |-> Kinds[((start + k - 2) % Len(Kinds)) + 1]], n)

\* a page made of these kinds, the k-th at BoxAt(k)
Page(kinds) ==
    List([k \in 1..Len(kinds) |->
             [type |-> kinds[k].type, bbox |-> BoxAt(k), ink |-> kinds[k].ink]],
         Len(kinds))

\* a page whose only region is a single point
DotPage == <<[type |-> "text", bbox |-> DegenerateBox, ink |-> << <<"." >> >>]>>

\* pages of the multi-page documents: no region, one region, two regions
SmallPages == {Page(<<>>), Page(Window(1, 1)), Page(Window(6, 2))}

Docs ==
    {<<Page(Window(start, n))>> : start \in 1..Len(Kinds), n \in 0..MaxBoxes}
    \cup {<<DotPage>>}
    \cup SeqsOf(SmallPages, 2, MaxPages)

\* pdf_images_transformer.split_pdf: one image per page
SplitPdf(doc) == List([p \in 1..Len(doc) |-> [page |-> p]], Len(doc))

\* image_layout_detector.predict (boxes2order.py:26-46)
DetectorPredict(doc, img) ==
    LET result == doc[img.page]
    IN  [obj_types |-> List([k \in 1..Len(result) |-> result[k].type], Len(result)),
         obj_boxes |-> List([k \in 1..Len(result) |-> result[k].bbox], Len(result))]

\* the layout engine answers or fails (self.table_engine(img), boxes2order.py:37)
DetectorOutcomes(doc, img) ==
    {[raised |-> FALSE, obj_types |-> DetectorPredict(doc, img).obj_types,
      obj_boxes |-> DetectorPredict(doc, img).obj_boxes],
     [raised |-> TRUE, obj_types |-> <<>>, obj_boxes |-> <<>>]}

Inside(b, box) == box[1] <= b[1] /\ box[2] <= b[2] /\ b[3] <= box[3] /\ b[4] <= box[4]

\* the text lines a clip shows: the ink of the regions left unmasked (the
\* slice box[1]:box[3], box[0]:box[2] is empty for a box without area)
RECURSIVE InkShown(_, _)
InkShown(regions, box) ==
    IF regions = <<>> THEN <<>>
    ELSE (IF Inside(regions[1].bbox, box) /\ box[1] < box[3] /\ box[2] < box[4]
          THEN regions[1].ink ELSE <<>>)
         \o InkShown(Tail(regions), box)

\* self.model.ocr(img, cls=True)[0]: None where the engine finds no text
OcrEngine(doc, clip) ==
    LET lines == InkShown(doc[clip.page], clip.box)
    IN  [none |-> lines = <<>>, items |-> lines]

\* the engine behind ocr_model.predict answers or raises
OcrEngineOutcomes(doc, clip) ==
    {[raised |-> FALSE, result |-> OcrEngine(doc, clip)],
     [raised |-> TRUE, result |-> [none |-> TRUE, items |-> <<>>]]}

\* ocr_model.predict with a blank line reported where the engine finds nothing
OcrPredictBlankLine(result) ==
    IF result.none THEN [texts |-> << <<>> >>, scores |-> <<1>>]
    ELSE [texts |-> result.items,
          scores |-> List([k \in 1..Len(result.items) |-> 1], Len(result.items))]

\* ocr_model.predict (ocr_imgbyimg.py:28-49)
OcrPredict(result) ==
    IF result.none THEN [texts |-> <<>>, scores |-> <<>>]
    ELSE [texts |-> result.items,
          scores |-> List([k \in 1..Len(result.items) |-> 1], Len(result.items))]

-----------------------------------------------------------------------------
(* The text-cleanup collaborator (llm/gemini.py, llm/ollama.py).           *)

\* hp.platform as configured; "absent" is a configuration without the attribute
Platforms == {"gemini", "ollama", "other", "absent"}

\* methods of the formater classes
FormaterMethods ==
    [gemini |-> {"to_markdown", "is_model_valid", "get_model", "get_prompt", "chat"},
     ollama |-> {"host", "clean"}]

\* get_prompt with the one general instruction of hp.prompt for every type
GetPromptGeneral(obj_type) == <<"hp.prompt">>

\* gemini_text_formater.get_prompt(task_type="clean_text", obj_type=...)
GetPromptCleanText(obj_type) ==
    CASE obj_type = "text" -> <<"hp.text_promp">>
      [] obj_type = "title" -> <<"hp.title_prompt">>
      [] obj_type = "figure_caption" -> <<"hp.figure_caption_prompt">>
      [] obj_type = "table_caption" -> <<"hp.table_caption_prompt">>
      [] obj_type = "header" -> <<"hp.header_prompt">>
      [] obj_type = "footer" -> <<"hp.footer_prompt">>
      [] obj_type = "reference" -> <<"hp.reference_prompt">>
      [] obj_type = "equation" -> <<"hp.equation_prompt">>
      [] OTHER -> <<>>

\* None as a language
None == "<None>"

\* hp.translate_prompt.format(current_language=..., target_language=...)
TranslatePrompt(current_language, target_language) ==
    <<"the following text is in ", current_language,
      ", please translate it to ", target_language>>

\* get_prompt with the empty prompt where the languages give none
GetPromptDefaultEmpty(task_type, kwargs) ==
    IF task_type = "clean_text"
    THEN [raised |-> FALSE, prompt |-> GetPromptCleanText(kwargs.obj_type)]
    ELSE IF task_type = "translate"
    THEN IF /\ kwargs.current_language # kwargs.target_language
            /\ kwargs.current_language # None /\ kwargs.target_language # None
         THEN [raised |-> FALSE,
               prompt |-> TranslatePrompt(kwargs.current_language, kwargs.target_language)]
         ELSE [raised |-> FALSE, prompt |-> <<>>]
    ELSE [raised |-> TRUE, prompt |-> <<>>]

\* gemini_text_formater.get_prompt (gemini.py:65-107): in the translate
\* branch prompt is bound only when the languages differ and neither is
\* None, and `return prompt' raises where it is not bound; any other
\* task_type raises
GetPrompt(task_type, kwargs) ==
    IF task_type = "clean_text"
    THEN [raised |-> FALSE, prompt |-> GetPromptCleanText(kwargs.obj_type)]
    ELSE IF task_type = "translate"
    THEN IF /\ kwargs.current_language # kwargs.target_language
            /\ kwargs.current_language # None /\ kwargs.target_language # None
         THEN [raised |-> FALSE,
               prompt |-> TranslatePrompt(kwargs.current_language, kwargs.target_language)]
         ELSE [raised |-> TRUE, prompt |-> <<>>]
    ELSE [raised |-> TRUE, prompt |-> <<>>]

\* the bullet character U+2022
Bullet == "<U+2022>"

\* gemini_text_formater.to_markdown
ToMarkdown(text) ==
    List([k \in 1..Len(text) |-> IF text[k] = Bullet THEN "  *" ELSE text[k]], Len(text))

\* what the model may answer to a request: a bullet item that repeats the
\* last word of the request
LlmResponses(text) == {<<Bullet, text[Len(text)], NL>>}

\* gemini_text_formater.chat: the service answers or fails
ChatOutcomes(text) ==
    {[raised |-> FALSE, text |-> ToMarkdown(r)] : r \in LlmResponses(text)}
    \cup {[raised |-> TRUE, text |-> <<>>]}

-----------------------------------------------------------------------------
(* pdf_md_transformer (pdf2md.py).                                         *)

ClipsSavedPath == "./data/clips/"

OffloadedAttrs == {"pdf_img_transformer", "image_layout_detecter", "reading_order_aranger"}
LoadedAttrs == OffloadedAttrs \cup {"ocr_model"}

\* load_models
LoadModelsRun(a) == a \cup LoadedAttrs

\* del of the attributes in dels, in order: the first one missing raises
RECURSIVE DelAttrs(_, _)
DelAttrs(a, dels) ==
    IF dels = <<>> THEN [raised |-> FALSE, attrs |-> a]
    ELSE IF dels[1] \notin a THEN [raised |-> TRUE, attrs |-> a]
    ELSE DelAttrs(a \ {dels[1]}, Tail(dels))

\* offload_models deleting the OCR model with the others
OffloadModelsRunAll(a) ==
    DelAttrs(a, <<"pdf_img_transformer", "image_layout_detecter", "reading_order_aranger",
                  "ocr_model">>)

\* offload_models
OffloadModelsRun(a) ==
    DelAttrs(a, <<"pdf_img_transformer", "image_layout_detecter", "reading_order_aranger">>)

\* page_num: None, or an integer
NoPageNum == [none |-> TRUE, n |-> 0]
PageNums == {NoPageNum} \cup {[none |-> FALSE, n |-> k] : k \in 0..MaxPages}

\* the values of page_num a caller passes for this document: None, or a
\* number of pages up to the number the document has
PageNumsFor(doc) == {pn \in PageNums : pn.none \/ pn.n <= Len(doc)}

\* images[:page_num] with page_num ignored
FirstPagesAll(images, page_num) == images

\* images[:page_num]
FirstPages(images, page_num) ==
    IF page_num.none \/ page_num.n >= Len(images) THEN images
    ELSE SubSeq(images, 1, page_num.n)

\* the element the first index names, once per index
GatherFirst(list, obj_orders) ==
    List([i \in 1..Len(obj_orders) |-> list[obj_orders[1] + 1]], Len(obj_orders))

\* np.array(list)[obj_orders].tolist()
Gather(list, obj_orders) ==
    List([i \in 1..Len(obj_orders) |-> list[obj_orders[i] + 1]], Len(obj_orders))

\* the arrangement with the boxes left in detector order
ArrangedBoxesKept(obj_types, obj_boxes, obj_orders) ==
    [types |-> Gather(obj_types, obj_orders), boxes |-> obj_boxes]

\* pdf2md.py:107-108
Arranged(obj_types, obj_boxes, obj_orders) ==
    [types |-> Gather(obj_types, obj_orders), boxes |-> Gather(obj_boxes, obj_orders)]

\* pdf2md.py:111-119: one masked clip per arranged region
ClipsOf(img, boxes) ==
    List([i \in 1..Len(boxes) |-> [page |-> img.page, box |-> boxes[i]]], Len(boxes))

PredictBegin(page_num, a) ==
    [ran |-> TRUE, raised |-> FALSE, failed |-> "none", page_num |-> page_num,
     pages |-> <<>>, types |-> <<>>, clips |-> <<>>, published |-> FALSE, attrs |-> a]

\* pdf2md.py:120-123
PredictEnd(acc) ==
    LET off == OffloadModelsRun(acc.attrs)
    IN  [acc EXCEPT !.published = TRUE, !.raised = off.raised,
                    !.failed = IF off.raised THEN "del" ELSE "none",
                    !.attrs = off.attrs]

\* pdf2md.py:103-119: every way the loop over images[k..] can go; `failed'
\* names what raised: a missing attribute, the detector, the reading order
RECURSIVE PredictLoop(_, _, _, _)
PredictLoop(doc, images, k, acc) ==
    IF k > Len(images) THEN {PredictEnd(acc)}
    ELSE IF {"image_layout_detecter", "reading_order_aranger"} \ acc.attrs # {}
    THEN {[acc EXCEPT !.raised = TRUE, !.failed = "attribute"]}
    ELSE UNION {
          IF det.raised THEN {[acc EXCEPT !.raised = TRUE, !.failed = "detector"]}
          ELSE UNION {
               IF o.raised THEN {[acc EXCEPT !.raised = TRUE, !.failed = "order"]}
               ELSE LET ar == Arranged(det.obj_types, det.obj_boxes, o.orders)
                    IN  PredictLoop(doc, images, k + 1,
                          [acc EXCEPT
                             !.pages = Append(@, [img |-> images[k],
                                                  obj_types |-> det.obj_types,
                                                  obj_boxes |-> det.obj_boxes,
                                                  obj_orders |-> o.orders,
                                                  aranged_types |-> ar.types,
                                                  aranged_boxes |-> ar.boxes]),
                             !.types = @ \o ar.types,
                             !.clips = @ \o ClipsOf(images[k], ar.boxes)])
               : o \in ReadingOrderOutcomes(det.obj_boxes)}
          : det \in DetectorOutcomes(doc, images[k])}

\* predict (pdf2md.py:90-123): every way the call can end
PredictOutcomes(doc, page_num, a) ==
    IF "pdf_img_transformer" \notin a
    THEN {[PredictBegin(page_num, a) EXCEPT !.raised = TRUE, !.failed = "attribute"]}
    ELSE PredictLoop(doc, FirstPages(SplitPdf(doc), page_num), 1,
                     PredictBegin(page_num, a))

\* self.types / self.clips assigned whatever the loop did
AssignedAlways(p, old, new) == [set |-> TRUE, v |-> new]

\* pdf2md.py:120-121: self.types / self.clips after the call, assigned only
\* when the loop over the pages ended without raising
Assigned(p, old, new) == IF p.published THEN [set |-> TRUE, v |-> new] ELSE old

\* f"![{type}]({hp.clips_saved_path})\n\n" with the type of a figure for all
PlaceholderFigure(type) == <<"![", "figure", "](", ClipsSavedPath, ")", NL, NL>>

\* f"![{type}]({hp.clips_saved_path})\n\n"
Placeholder(type) == <<"![", type, "](", ClipsSavedPath, ")", NL, NL>>

CleanBegin(types, clips) ==
    [ran |-> TRUE, raised |-> FALSE, failed |-> "none", types |-> types, clips |-> clips,
     txt_list |-> <<>>, origin |-> <<>>, calls |-> <<>>]

\* every call to a collaborator made twice
LoggedTwice(acc, fn, i, ok, arg, out) ==
    [acc EXCEPT !.calls = @ \o <<[fn |-> fn, at |-> i, ok |-> ok, arg |-> arg, out |-> out],
                                  [fn |-> fn, at |-> i, ok |-> ok, arg |-> arg, out |-> out]>>]

\* a call to a collaborator made for region i, with what went in and came out
Logged(acc, fn, i, ok, arg, out) ==
    [acc EXCEPT !.calls = Append(@, [fn |-> fn, at |-> i, ok |-> ok,
                                     arg |-> arg, out |-> out])]

\* txt_list grown at the front
Prepended(acc, fragment, i) ==
    [acc EXCEPT !.txt_list = <<fragment>> \o @, !.origin = <<i>> \o @]

\* txt_list.append(fragment), for region i
Appended(acc, fragment, i) ==
    [acc EXCEPT !.txt_list = Append(@, fragment), !.origin = Append(@, i)]

Min(a, b) == IF a <= b THEN a ELSE b

\* pdf2md.py:54-68: every way the loop over zip(types, clips)[i..] can go
RECURSIVE CleanTextLoop(_, _, _, _, _)
CleanTextLoop(doc, formater, a, i, acc) ==
    IF i > Min(Len(acc.types), Len(acc.clips)) THEN {acc}
    ELSE IF acc.types[i] \notin {"table", "figure"}
    THEN IF "ocr_model" \notin a
         THEN {[acc EXCEPT !.raised = TRUE, !.failed = "attribute"]}
         ELSE UNION {
          IF e.raised
          THEN {[Logged(acc, "ocr", i, FALSE, <<"raised">>, <<>>) EXCEPT !.raised = TRUE]}
          ELSE
           LET engine == e.result
               text == OcrPredict(engine).texts
               a1 == Logged(acc, "ocr", i, TRUE,
                            IF engine.none THEN <<"None">> ELSE <<"items">>, text)
           IN  IF text = <<>> THEN CleanTextLoop(doc, formater, a, i + 1, a1)
               ELSE IF "text_formater" \notin a
               THEN {[a1 EXCEPT !.raised = TRUE, !.failed = "attribute"]}
               ELSE IF "get_prompt" \notin FormaterMethods[formater]
               THEN {[Logged(a1, "get_prompt", i, FALSE, <<acc.types[i]>>, <<>>)
                         EXCEPT !.raised = TRUE]}
               ELSE LET prompt == GetPromptCleanText(acc.types[i])
                        a2 == Logged(a1, "get_prompt", i, TRUE, <<acc.types[i]>>, prompt)
                        said == prompt \o Strip(Join(<<NL>>, text))
                    IN  UNION {
                          IF o.raised
                          THEN {[Logged(a2, "chat", i, FALSE, said, <<>>)
                                    EXCEPT !.raised = TRUE]}
                          ELSE CleanTextLoop(doc, formater, a, i + 1,
                                 Appended(Logged(a2, "chat", i, TRUE, said, o.text),
                                          o.text, i))
                          : o \in ChatOutcomes(said)}
          : e \in OcrEngineOutcomes(doc, acc.clips[i])}
    ELSE CleanTextLoop(doc, formater, a, i + 1,
                       Appended(acc, Placeholder(acc.types[i]), i))

\* clean_text (pdf2md.py:49-70): every way the call can end
CleanTextOutcomes(doc, formater, types, clips, a) ==
    CleanTextLoop(doc, formater, a, 1, CleanBegin(types, clips))

\* load_models run however the loop ended
CleanTextEndAlwaysLoads(c, a) == LoadModelsRun(a)

\* pdf2md.py:69-70: load_models and the return are reached only when the
\* loop ended without raising
CleanTextEnd(c, a) == IF c.raised THEN a ELSE LoadModelsRun(a)

\* the languages a caller passes: given and different, equal, one not given
LanguagePairs == {<<"en", "zh">>, <<"en", "en">>, <<None, "zh">>, <<"en", None>>}

\* the text a caller asks to have translated
TranslateTexts == {<<"Attention", " ", "is">>}

TranslateBegin(task_type, current_language, target_language, text) ==
    [ran |-> TRUE, raised |-> FALSE, failed |-> "none", task_type |-> task_type,
     current_language |-> current_language, target_language |-> target_language,
     text |-> text, calls |-> <<>>, pull |-> <<>>]

\* one call of the formater's get_prompt, as translate and a direct caller
\* make it: the record of the call and the prompt
GetPromptCalled(formater, a, acc) ==
    LET kwargs == [obj_type |-> "text", current_language |-> acc.current_language,
                   target_language |-> acc.target_language]
        arg == <<acc.task_type, acc.current_language, acc.target_language>>
    IN  IF "text_formater" \notin a
        THEN [acc EXCEPT !.raised = TRUE, !.failed = "attribute"]
        ELSE IF "get_prompt" \notin FormaterMethods[formater]
        THEN [acc EXCEPT !.raised = TRUE, !.failed = "method",
                         !.calls = Append(@, [fn |-> "get_prompt", ok |-> FALSE,
                                              arg |-> arg, out |-> <<>>])]
        ELSE LET g == GetPrompt(acc.task_type, kwargs)
             IN  [acc EXCEPT !.raised = g.raised,
                             !.failed = IF g.raised THEN "get_prompt" ELSE "none",
                             !.calls = Append(@, [fn |-> "get_prompt", ok |-> ~g.raised,
                                                  arg |-> arg, out |-> g.prompt])]

\* translate (pdf2md.py:72-88): every way the call can end
TranslateOutcomes(formater, a, current_language, target_language, text) ==
    LET a1 == GetPromptCalled(formater, a,
                  TranslateBegin("translate", current_language, target_language, text))
    IN  IF a1.raised THEN {a1}
        ELSE LET said == a1.calls[1].out \o text
             IN  {[a1 EXCEPT !.raised = o.raised,
                             !.failed = IF o.raised THEN "chat" ELSE "none",
                             !.calls = Append(@, [fn |-> "chat", ok |-> ~o.raised,
                                                  arg |-> said, out |-> o.text]),
                             !.pull = o.text]
                  : o \in ChatOutcomes(said)}

\* the fragments joined by a single newline
AssembleSingleNewline(text_list) == Join(<<NL>>, text_list)

\* "\n\n".join(text_list) (app.py:31)
Assemble(text_list) == Join(<<NL, NL>>, text_list)


Constructed == "text_formater" \in attrs

Returned(op, value) == [op |-> op, outcome |-> "returned", value |-> value]
Raised(op) == [op |-> op, outcome |-> "raised", value |-> <<>>]

Init ==
    /\ input = [fn |-> "none"]
    /\ output = NotCalled
    /\ pdf \in Docs
    /\ platform \in Platforms
    /\ attrs = {}
    /\ self_types = Unset
    /\ self_clips = Unset
    /\ predict_run = NotRun
    /\ clean_run = NotRun
    /\ translate_run = NotRun
    /\ ret = NoRet

RaisedAt(op, where) == [op |-> op, outcome |-> "raised", value |-> <<where>>]

\* get_model with gemini taken for every platform that is not ollama
GetModelFallback(p, serviceUp) ==
    IF p = "ollama" THEN [raised |-> ~serviceUp, formater |-> "ollama"]
    ELSE [raised |-> ~serviceUp, formater |-> "gemini"]

\* get_model (pdf2md.py:33-47): the formater's own constructor reaches the
\* service and can raise; a platform that is neither gemini nor ollama raises
GetModel(p, serviceUp) ==
    IF p = "gemini" THEN [raised |-> ~serviceUp, formater |-> "gemini"]
    ELSE IF p = "ollama" THEN [raised |-> ~serviceUp, formater |-> "ollama"]
    ELSE [raised |-> TRUE, formater |-> "none"]

\* __init__ (pdf2md.py:12-14): reading hp.platform raises where the attribute
\* is absent; then get_model, then load_models.  `at' is where it raised.
ConstructRun(p, serviceUp) ==
    IF p = "absent" THEN [raised |-> TRUE, at |-> "hp.platform", attrs |-> {}]
    ELSE IF GetModel(p, serviceUp).raised
    THEN [raised |-> TRUE, at |-> "get_model", attrs |-> {}]
    ELSE [raised |-> FALSE, at |-> "none", attrs |-> LoadModelsRun({"text_formater"})]

\* model = pdf_md_transformer() (app.py:7).  No object exists after a raise.
Construct ==
    /\ ~Constructed
    /\ input.fn = "none"
    /\ \E serviceUp \in BOOLEAN :
          LET c == ConstructRun(platform, serviceUp)
          IN  /\ attrs' = c.attrs
              /\ ret' = IF c.raised THEN RaisedAt("__init__", c.at)
                        ELSE Returned("__init__", <<>>)
    /\ UNCHANGED <<fnVars, pdf, platform, self_types, self_clips, predict_run, clean_run,
                   translate_run>>

\* model.load_models()
LoadModels ==
    /\ Constructed
    /\ attrs' = LoadModelsRun(attrs)
    /\ ret' = Returned("load_models", <<>>)
    /\ predict_run' = NotRun
    /\ clean_run' = NotRun
    /\ translate_run' = NotRun
    /\ UNCHANGED <<fnVars, pdf, platform, self_types, self_clips>>

\* model.offload_models()
OffloadModels ==
    /\ Constructed
    /\ LET off == OffloadModelsRun(attrs)
       IN  /\ attrs' = off.attrs
           /\ ret' = IF off.raised THEN Raised("offload_models")
                     ELSE Returned("offload_models", <<>>)
    /\ predict_run' = NotRun
    /\ clean_run' = NotRun
    /\ translate_run' = NotRun
    /\ UNCHANGED <<fnVars, pdf, platform, self_types, self_clips>>

\* model.predict(pdf_path, page_num)
Predict ==
    /\ Constructed
    /\ \E page_num \in PageNumsFor(pdf) :
       \E p \in PredictOutcomes(pdf, page_num, attrs) :
          /\ attrs' = p.attrs
          /\ self_types' = Assigned(p, self_types, p.types)
          /\ self_clips' = Assigned(p, self_clips, p.clips)
          /\ predict_run' = p
          /\ ret' = IF p.raised THEN Raised("predict")
                    ELSE Returned("predict", <<p.types, p.clips>>)
    /\ clean_run' = NotRun
    /\ translate_run' = NotRun
    /\ UNCHANGED <<fnVars, pdf, platform>>

\* model.clean_text(model.types, model.clips): the lists predict published
CleanText ==
    /\ Constructed
    /\ self_types.set /\ self_clips.set
    /\ \E c \in CleanTextOutcomes(pdf, platform, self_types.v, self_clips.v, attrs) :
          /\ clean_run' = c
          /\ attrs' = CleanTextEnd(c, attrs)
          /\ ret' = IF c.raised THEN Raised("clean_text")
                    ELSE Returned("clean_text", c.txt_list)
    /\ predict_run' = NotRun
    /\ translate_run' = NotRun
    /\ UNCHANGED <<fnVars, pdf, platform, self_types, self_clips>>

\* update_markdown(pdf_path) (app.py:27-31)
UpdateMarkdown ==
    /\ Constructed
    /\ \E p \in PredictOutcomes(pdf, NoPageNum, attrs) :
          /\ self_types' = Assigned(p, self_types, p.types)
          /\ self_clips' = Assigned(p, self_clips, p.clips)
          /\ predict_run' = p
          /\ IF p.raised
             THEN /\ attrs' = p.attrs
                  /\ clean_run' = NotRun
                  /\ ret' = Raised("update_markdown")
             ELSE \E c \in CleanTextOutcomes(pdf, platform, p.types, p.clips, p.attrs) :
                     /\ clean_run' = c
                     /\ attrs' = CleanTextEnd(c, p.attrs)
                     /\ ret' = IF c.raised THEN Raised("update_markdown")
                               ELSE Returned("update_markdown", Assemble(c.txt_list))
    /\ translate_run' = NotRun
    /\ UNCHANGED <<fnVars, pdf, platform>>

\* translate(current_language, target_language, text) (app.py:34-35)
Translate ==
    /\ Constructed
    /\ \E langs \in LanguagePairs : \E text \in TranslateTexts :
       \E t \in TranslateOutcomes(platform, attrs, langs[1], langs[2], text) :
          /\ translate_run' = t
          /\ ret' = IF t.raised THEN Raised("translate") ELSE Returned("translate", t.pull)
    /\ predict_run' = NotRun
    /\ clean_run' = NotRun
    /\ UNCHANGED <<fnVars, pdf, platform, attrs, self_types, self_clips>>

Next ==
    \/ Construct
    \/ LoadModels
    \/ OffloadModels
    \/ Predict
    \/ CleanText
    \/ UpdateMarkdown

Spec == Init /\ [][Next]_vars

-----------------------------------------------------------------------------
(* The caller that alternates predict and clean_text from construction on:  *)
(* predict comes first and after every clean_text, clean_text after every   *)
(* predict, whatever the call before did.                                   *)

PredictTurn == ret.op \in {"__init__", "clean_text"} /\ Predict
CleanTextTurn == ret.op = "predict" /\ CleanText

NextAlternating ==
    \/ Construct
    \/ PredictTurn
    \/ CleanTextTurn

SpecAlternating == Init /\ [][NextAlternating]_vars

-----------------------------------------------------------------------------
(* The caller of the translation tab, and a caller that asks the formater  *)
(* for a prompt directly.                                                  *)

TaskTypes == {"clean_text", "translate", "summarize"}

\* model.text_formater.get_prompt(task_type=..., current_language=..., target_language=...)
GetPromptCall ==
    /\ Constructed
    /\ \E task_type \in TaskTypes : \E langs \in LanguagePairs :
          LET g == GetPromptCalled(platform, attrs,
                       TranslateBegin(task_type, langs[1], langs[2], <<>>))
          IN  /\ translate_run' = g
              /\ ret' = IF g.raised THEN Raised("get_prompt")
                        ELSE Returned("get_prompt", g.calls[1].out)
    /\ predict_run' = NotRun
    /\ clean_run' = NotRun
    /\ UNCHANGED <<fnVars, pdf, platform, attrs, self_types, self_clips>>

NextTranslate ==
    \/ Construct
    \/ Translate
    \/ GetPromptCall

SpecTranslate == Init /\ [][NextTranslate]_vars

-----------------------------------------------------------------------------
(* The life of the object under every interleaving of its operations,      *)
(* translate included, on documents of one page.                           *)

LifecycleDocs == {<<Page(<<>>)>>, <<Page(Window(1, 1))>>, <<Page(Window(6, 2))>>}

InitLifecycle == Init /\ pdf \in LifecycleDocs

NextLifecycle ==
    \/ Construct
    \/ LoadModels
    \/ OffloadModels
    \/ Predict
    \/ CleanText
    \/ UpdateMarkdown
    \/ Translate

SpecLifecycle == InitLifecycle /\ [][NextLifecycle]_vars

-----------------------------------------------------------------------------
(* Claims about the reading-order decoder and the normalizer (SpecFn).     *)

OrderReturned == input.fn = "order" /\ output.done /\ ~output.raised
ScaleReturned == input.fn = "scale" /\ output.done /\ ~output.raised
Degenerate(boxes) == SetMin(Pool(boxes)) = SetMax(Pool(boxes))

\* C1: for a page with N >= 1 boxes the order list that
\* LayoutLmForReadingOrder.predict returns has length N, every value lies
\* in [0, N) and no value occurs twice; on boxes that are not all one point
\* predict does return.
C1_OrderIsBijection ==
    (input.fn = "order" /\ output.done /\ Len(input.boxes) >= 1) =>
        LET n == Len(input.boxes)
            o == output.orders
        IN  /\ output.raised => Degenerate(input.boxes)
            /\ ~output.raised =>
                  /\ Len(o) = n
                  /\ \A i \in 1..n : o[i] \in 0..(n - 1)
                  /\ \A i \in 1..n : \A j \in 1..n : i # j => o[i] # o[j]

\* C1 witness: three boxes, two of which have the same argmax rank, decoded.
C1_Witness ==
    /\ OrderReturned
    /\ Len(input.boxes) = 3
    /\ \E i \in 1..3 : \E j \in 1..3 :
          /\ i # j
          /\ Candidates(input.logits[i], 3)[1] = Candidates(input.logits[j], 3)[1]

\* the exact quotient floor((v - lo) * 999 / (hi - lo))
ExactScale(v, lo, hi) == ((v - lo) * ScaleMax) \div (hi - lo)

\* C8 (as claimed): for N >= 1 boxes with lo < hi, scale returns N boxes
\* whose every coordinate is an integer in [0, 999] equal to
\* floor((v - lo) * 999 / (hi - lo)).
C8_ScaleIsExactFloor ==
    (input.fn = "scale" /\ output.done /\ Len(input.boxes) >= 1
        /\ ~Degenerate(input.boxes)) =>
        LET lo == SetMin(Pool(input.boxes))
            hi == SetMax(Pool(input.boxes))
        IN  /\ ~output.raised
            /\ Len(output.boxes) = Len(input.boxes)
            /\ \A i \in 1..Len(input.boxes) : \A j \in 1..4 :
                  /\ output.boxes[i][j] \in 0..ScaleMax
                  /\ output.boxes[i][j] = ExactScale(input.boxes[i][j], lo, hi)

\* C8 (amended): for N >= 1 boxes with lo < hi, scale returns N boxes whose
\* every coordinate is an integer in [0, 999]; lo maps to 0 and hi to 999;
\* a coordinate is floor((v - lo) * 999 / (hi - lo)), or one less than that
\* quotient where the quotient is an exact integer (the division is rounded
\* before the multiplication).
C8_ScaleWithinOneOfFloor ==
    (input.fn = "scale" /\ output.done /\ Len(input.boxes) >= 1
        /\ ~Degenerate(input.boxes)) =>
        LET lo == SetMin(Pool(input.boxes))
            hi == SetMax(Pool(input.boxes))
        IN  /\ ~output.raised
            /\ Len(output.boxes) = Len(input.boxes)
            /\ \A i \in 1..Len(input.boxes) : \A j \in 1..4 :
                  LET v == input.boxes[i][j]
                      r == output.boxes[i][j]
                  IN  /\ r \in 0..ScaleMax
                      /\ v = lo => r = 0
                      /\ v = hi => r = ScaleMax
                      /\ \/ r = ExactScale(v, lo, hi)
                         \/ /\ r = ExactScale(v, lo, hi) - 1
                            /\ ((v - lo) * ScaleMax) % (hi - lo) = 0

\* C8 witness: a box set with lo < hi scaled, one coordinate of which comes
\* out one below the exact quotient.
C8_Witness ==
    /\ ScaleReturned
    /\ Len(input.boxes) >= 1
    /\ ~Degenerate(input.boxes)
    /\ \E i \in 1..Len(input.boxes) : \E j \in 1..4 :
          output.boxes[i][j] =
              ExactScale(input.boxes[i][j], SetMin(Pool(input.boxes)),
                         SetMax(Pool(input.boxes))) - 1

\* C9: for a box set whose pooled coordinates are all equal the normalizer
\* does not raise and maps every coordinate to 0.
C9_DegenerateMapsToZero ==
    (input.fn = "scale" /\ output.done /\ Len(input.boxes) >= 1
        /\ Degenerate(input.boxes)) =>
        /\ ~output.raised
        /\ \A i \in 1..Len(output.boxes) : \A j \in 1..4 : output.boxes[i][j] = 0

-----------------------------------------------------------------------------
(* Claims about predict, clean_text and update_markdown (Spec).            *)

PredictReturned == predict_run.ran /\ ~predict_run.raised
CleanReturned == clean_run.ran /\ ~clean_run.raised

\* regions walked by zip(types, clips)
Walked == 1..Min(Len(clean_run.types), Len(clean_run.clips))

\* regions of the last clean_text that are neither table nor figure and whose
\* OCR gave no text, by the log of the OCR calls
Dropped ==
    {c.at : c \in {d \in Range(clean_run.calls) : d.fn = "ocr" /\ d.ok /\ d.out = <<>>}}

CallsAt(i) == {c \in Range(clean_run.calls) : c.at = i}

\* C2: the arranged list of every page is the detected list sorted ascending
\* by order_rank, obj_orders[i] being the rank of detected region i: the
\* region with rank r is at position r.
C2_ArrangedSortedByRank ==
    PredictReturned =>
        \A k \in 1..Len(predict_run.pages) :
            LET pg == predict_run.pages[k]
                n == Len(pg.obj_types)
            IN  /\ Len(pg.aranged_types) = n
                /\ Len(pg.aranged_boxes) = n
                /\ \A i \in 1..n :
                      /\ pg.aranged_types[pg.obj_orders[i] + 1] = pg.obj_types[i]
                      /\ pg.aranged_boxes[pg.obj_orders[i] + 1] = pg.obj_boxes[i]

\* C3: a clean_text that returns has walked its input in index order and
\* appended at most one fragment per region: the regions the fragments come
\* from are strictly increasing, every fragment is the one made for its
\* region, and the length of the list is the number of regions minus the
\* number of regions (not table, not figure) whose OCR gave no text.
C3_CleanTextKeepsOrder ==
    CleanReturned =>
        LET out == clean_run.txt_list
            from == clean_run.origin
        IN  /\ Len(from) = Len(out)
            /\ Len(out) = Cardinality(Walked) - Cardinality(Dropped)
            /\ Len(out) <= Len(clean_run.types)
            /\ \A j \in 1..Len(out) : from[j] \in Walked \ Dropped
            /\ \A j \in 1..Len(out) : \A l \in 1..Len(out) : j < l => from[j] < from[l]
            /\ \A j \in 1..Len(out) :
                  IF clean_run.types[from[j]] \in {"table", "figure"}
                  THEN out[j][2] = clean_run.types[from[j]]
                  ELSE \E c \in CallsAt(from[j]) : c.fn = "chat" /\ c.ok /\ c.out = out[j]

\* C3 witness: a returned list of at least two fragments, one from a chat and
\* one placeholder, with a region dropped between regions that contribute.
C3_Witness ==
    /\ CleanReturned
    /\ Len(clean_run.txt_list) >= 2
    /\ \E i \in Dropped : \E j \in Range(clean_run.origin) : \E l \in Range(clean_run.origin) :
          j < i /\ i < l
    /\ \E j \in Range(clean_run.origin) : clean_run.types[j] \in {"table", "figure"}
    /\ \E c \in Range(clean_run.calls) : c.fn = "chat"

\* C4: ocr_model.predict reports an engine result of None as ([], []); a
\* region that is neither table nor figure and whose OCR text list is empty
\* contributes no fragment and triggers no get_prompt and no chat.
C4_EmptyOcrIsDropped ==
    /\ OcrPredict([none |-> TRUE, items |-> <<>>]) = [texts |-> <<>>, scores |-> <<>>]
    /\ clean_run.ran =>
          \A c \in Range(clean_run.calls) :
              c.fn = "ocr" =>
                  /\ clean_run.types[c.at] \notin {"table", "figure"}
                  /\ c.arg = <<"None">> => c.out = <<>>
                  /\ c.out = <<>> =>
                        /\ c.at \notin Range(clean_run.origin)
                        /\ \A d \in CallsAt(c.at) : d.fn \notin {"get_prompt", "chat"}

\* C4 witness: a clean_text in which the engine found nothing in one region
\* and a chat was made for another.
C4_Witness ==
    /\ clean_run.ran
    /\ \E c \in Range(clean_run.calls) : c.fn = "ocr" /\ c.arg = <<"None">>
    /\ \E c \in Range(clean_run.calls) : c.fn = "chat" /\ c.ok

\* C5: a region of type table or figure never has OCR, get_prompt or chat
\* called for it, and in a clean_text that returns it contributes exactly one
\* fragment, the placeholder ![<its own type>](./data/clips/) followed by a
\* blank line.
C5_TableFigurePlaceholder ==
    clean_run.ran =>
        \A i \in Walked :
            clean_run.types[i] \in {"table", "figure"} =>
                /\ CallsAt(i) = {}
                /\ CleanReturned =>
                      /\ Cardinality({j \in 1..Len(clean_run.origin) :
                                         clean_run.origin[j] = i}) = 1
                      /\ \A j \in 1..Len(clean_run.origin) :
                            clean_run.origin[j] = i =>
                                clean_run.txt_list[j] =
                                    <<"![", clean_run.types[i], "](", "./data/clips/", ")",
                                      "\n", "\n">>

\* C5 witness: a returned list made from a table, a figure and a region that
\* went through OCR and chat.
C5_Witness ==
    /\ CleanReturned
    /\ \E i \in Walked : clean_run.types[i] = "table"
    /\ \E i \in Walked : clean_run.types[i] = "figure"
    /\ \E c \in Range(clean_run.calls) : c.fn = "chat" /\ c.ok

\* C6: a chat that raises on region k does not abort clean_text: the call
\* returns a list in which region k holds one entry (the error marker) and
\* the other regions hold theirs, in order.
C6_ChatFailureIsolated ==
    clean_run.ran =>
        \A c \in Range(clean_run.calls) :
            (c.fn = "chat" /\ ~c.ok) =>
                /\ ~clean_run.raised
                /\ ret.outcome = "returned"
                /\ c.at \in Range(clean_run.origin)
                /\ Len(clean_run.txt_list) = Cardinality(Walked) - Cardinality(Dropped)

\* the number of regions on the pages predict processed
RegionsProcessed ==
    LET images == FirstPages(SplitPdf(pdf), predict_run.page_num)
    IN  Sum(List([k \in 1..Len(images) |-> Len(pdf[images[k].page])], Len(images)))

\* C7: after a predict that returns, types and clips have the same length,
\* the number of regions detected on the processed pages; clips[i] is the
\* crop of the region whose type is types[i], no region is cropped twice,
\* and the pairs stand page by page in the arranged order.
C7_TypesAndClipsPaired ==
    PredictReturned =>
        LET types == predict_run.types
            clips == predict_run.clips
            pages == predict_run.pages
        IN  /\ Len(types) = Len(clips)
            /\ Len(types) = RegionsProcessed
            /\ ret.op = "predict" => ret.value = <<types, clips>>
            /\ \A i \in 1..Len(clips) :
                  \E r \in 1..Len(pdf[clips[i].page]) :
                      /\ pdf[clips[i].page][r].bbox = clips[i].box
                      /\ pdf[clips[i].page][r].type = types[i]
            /\ \A i \in 1..Len(clips) : \A j \in 1..Len(clips) :
                  /\ i # j => clips[i] # clips[j]
                  /\ i < j => clips[i].page <= clips[j].page
            /\ types = Flatten(List([k \in 1..Len(pages) |-> pages[k].aranged_types],
                                    Len(pages)))
            /\ \A k \in 1..Len(pages) :
                  /\ pages[k].aranged_types = Gather(pages[k].obj_types, pages[k].obj_orders)
                  /\ pages[k].aranged_boxes = Gather(pages[k].obj_boxes, pages[k].obj_orders)

\* C7 witness: a predict that returned from two pages or more, one of them
\* with its regions rearranged.
C7_Witness ==
    /\ PredictReturned
    /\ Len(predict_run.pages) >= 2
    /\ Len(predict_run.types) >= 3
    /\ \E k \in 1..Len(predict_run.pages) :
          \E i \in 1..Len(predict_run.pages[k].obj_orders) :
              predict_run.pages[k].obj_orders[i] # i - 1

UpdateReturned == ret.op = "update_markdown" /\ ret.outcome = "returned"

\* where fragment k starts in the joined text (0-based)
FragmentOffset(list, k) ==
    Sum(List([j \in 1..(k - 1) |-> Len(list[j]) + 2], k - 1))

\* C10: update_markdown returns the fragments of clean_text in the order
\* given, each one once, a blank-line separator between neighbours and
\* nothing else; an empty fragment list gives the empty string.
C10_JoinedInOrder ==
    UpdateReturned =>
        LET list == clean_run.txt_list
            n == Len(list)
            text == ret.value
        IN  /\ CleanReturned
            /\ n = 0 => text = <<>>
            /\ n >= 1 => Len(text) = FragmentOffset(list, n) + Len(list[n])
            /\ \A k \in 1..n :
                  LET at == FragmentOffset(list, k)
                  IN  /\ SubSeq(text, at + 1, at + Len(list[k])) = list[k]
                      /\ k < n => SubSeq(text, at + Len(list[k]) + 1,
                                         at + Len(list[k]) + 2) = <<"\n", "\n">>

\* C10 witness: update_markdown returned the join of three fragments or more.
C10_Witness ==
    /\ UpdateReturned
    /\ Len(clean_run.txt_list) >= 3
    /\ \E j \in 1..Len(clean_run.txt_list) : \E l \in 1..Len(clean_run.txt_list) :
          clean_run.txt_list[j] # clean_run.txt_list[l]

-----------------------------------------------------------------------------
(* Claims about construction, the providers and the failure paths (Spec).  *)

\* C11: with a platform name that is neither gemini nor ollama the
\* constructor raises inside get_model, before load_models; no transformer
\* object exists afterwards, no model is loaded and no page is processed.
C11_InvalidPlatformIsFatal ==
    platform = "other" =>
        /\ attrs = {}
        /\ ~predict_run.ran /\ ~clean_run.ran
        /\ ~self_types.set /\ ~self_clips.set
        /\ ret.op \in {"none", "__init__"}
        /\ ret.op = "__init__" => ret.outcome = "raised" /\ ret.value = <<"get_model">>

\* C11 witness: the constructor has been run with an unsupported platform.
C11_Witness == platform = "other" /\ ret.op = "__init__" /\ ret.outcome = "raised"

\* C12: whichever provider get_model selected (gemini or ollama) offers
\* get_prompt and chat, so no clean_text stops at a call to an operation the
\* formater lacks: every get_prompt made for a region is answered.
C12_ProvidersUniform ==
    (Constructed /\ clean_run.ran) =>
        /\ {"get_prompt", "chat"} \subseteq FormaterMethods[platform]
        /\ \A c \in Range(clean_run.calls) : c.fn = "get_prompt" => c.ok

\* the pages predict was to process
PagesToProcess == FirstPages(SplitPdf(pdf), predict_run.page_num)

\* C13: when the layout detector fails on a page, predict skips that page
\* and goes on: it returns, and what it returns are the regions of the
\* pages processed before and after, in page order.
C13_DetectorFailureSkipsPage ==
    (predict_run.ran /\ predict_run.failed = "detector") =>
        /\ ~predict_run.raised
        /\ ret.outcome = "returned"
        /\ Len(predict_run.pages) = Len(PagesToProcess) - 1

\* C14: when the reading-order decoder gives no permutation for a page,
\* predict does not abort and does not drop the page: it returns, and that
\* page's regions stand in the detector's order.
C14_DecodeFailureFallsBack ==
    (predict_run.ran /\ predict_run.failed = "order") =>
        /\ ~predict_run.raised
        /\ ret.outcome = "returned"
        /\ Len(predict_run.pages) = Len(PagesToProcess)
        /\ Len(predict_run.types) = RegionsProcessed

\* C15: after construction the heavy models are loaded; a predict that
\* returns leaves them offloaded; a clean_text that returns leaves them
\* loaded; and in a run that alternates predict and clean_text from
\* construction on, no predict fails for a missing model.
C15_AlternationFindsModels ==
    /\ (ret.op = "__init__" /\ ret.outcome = "returned") => OffloadedAttrs \subseteq attrs
    /\ (ret.op = "predict" /\ ret.outcome = "returned") => OffloadedAttrs \cap attrs = {}
    /\ (ret.op = "clean_text" /\ ret.outcome = "returned") => OffloadedAttrs \subseteq attrs
    /\ ret.op = "predict" => predict_run.failed # "attribute"

C17_FragmentsEndInBlankLine ==
    clean_run.ran =>
        \A j \in 1..Len(clean_run.txt_list) :
            LET f == clean_run.txt_list[j]
            IN  Len(f) >= 2 /\ f[Len(f)] = "\n" /\ f[Len(f) - 1] = "\n"

\* the eight text-bearing types and the instruction of each (hp_api.py:12-39)
InstructionOf ==
    [text |-> "hp.text_promp", title |-> "hp.title_prompt",
     figure_caption |-> "hp.figure_caption_prompt",
     table_caption |-> "hp.table_caption_prompt",
     header |-> "hp.header_prompt", footer |-> "hp.footer_prompt",
     reference |-> "hp.reference_prompt", equation |-> "hp.equation_prompt"]

\* C18: for a region of one of the eight text-bearing types whose OCR text
\* is not empty, what is sent to the collaborator is that type's own
\* instruction followed by the OCR lines joined with a newline and stripped.
C18_PromptIsTypeInstruction ==
    /\ \A t \in DOMAIN InstructionOf : GetPromptCleanText(t) = <<InstructionOf[t]>>
    /\ \A t \in DOMAIN InstructionOf : \A u \in DOMAIN InstructionOf :
          t # u => InstructionOf[t] # InstructionOf[u]
    /\ clean_run.ran =>
          \A c \in Range(clean_run.calls) :
              (c.fn = "chat" /\ clean_run.types[c.at] \in DOMAIN InstructionOf) =>
                  \E o \in CallsAt(c.at) :
                      /\ o.fn = "ocr"
                      /\ o.out # <<>>
                      /\ c.arg = <<InstructionOf[clean_run.types[c.at]]>>
                                 \o Strip(Join(<<"\n">>, o.out))

\* C18 witness: a title whose OCR line starts with a blank and a text of two
\* lines have both been sent to the collaborator.
C18_Witness ==
    /\ clean_run.ran
    /\ \E c \in Range(clean_run.calls) :
          c.fn = "chat" /\ c.arg = <<"hp.title_prompt", "Intro">>
    /\ \E c \in Range(clean_run.calls) :
          c.fn = "chat" /\ c.arg = <<"hp.text_promp", "Attention", "\n", "is">>

\* the ten region-type names of the taxonomy
Taxonomy ==
    {"text", "title", "figure", "figure_caption", "table", "table_caption",
     "header", "footer", "reference", "equation"}

\* C19: a region-type name outside the taxonomy is never accepted while
\* regions are processed: no region's text is sent to the collaborator under
\* such a name.
C19_UnsupportedTypeNeverSent ==
    clean_run.ran =>
        \A c \in Range(clean_run.calls) :
            c.fn \in {"get_prompt", "chat"} =>
                /\ clean_run.types[c.at] \in Taxonomy
                /\ c.fn = "get_prompt" /\ c.ok => c.out # <<>>

\* C20: a predict made while the models are offloaded is rejected before
\* any page is processed and before self.types and self.clips are assigned,
\* and it is an explicit state attribute of the object that marks the
\* models as offloaded, not the absence of the model attributes.
C20_OffloadedPredictRejectedByFlag ==
    (predict_run.ran /\ OffloadedAttrs \cap predict_run.attrs = {}
        /\ predict_run.pages = <<>> /\ predict_run.raised) =>
        /\ ~predict_run.published
        /\ predict_run.failed # "attribute"
        /\ attrs \ (LoadedAttrs \cup {"text_formater"}) # {}

-----------------------------------------------------------------------------
(* Claims about call order, frames and the remaining operations.           *)

\* the calls of the last clean_text made for region i, in the order made
CallNamesAt(i) ==
    LET cs == SelectSeq(clean_run.calls, LAMBDA c : c.at = i)
    IN  [k \in 1..Len(cs) |-> cs[k].fn]

\* C21: clean_text makes its calls one region after the other in index
\* order: no call for a region follows a call for a later region; a region
\* gets at most one OCR call and then at most one chat call, the chat only
\* after its OCR gave text; no call is repeated; and a clean_text that
\* returns has made one chat call for each region that is neither table
\* nor figure and whose OCR gave text.
C21_CallsSequentialNoRetry ==
    clean_run.ran =>
        LET calls == clean_run.calls
        IN  /\ \A k \in 1..Len(calls) : \A l \in 1..Len(calls) :
                  k < l => calls[k].at <= calls[l].at
            /\ \A i \in Walked :
                  /\ CallNamesAt(i) \in {<<>>, <<"ocr">>, <<"ocr", "get_prompt">>,
                                         <<"ocr", "get_prompt", "chat">>}
                  /\ Len(CallNamesAt(i)) >= 2 =>
                        /\ clean_run.types[i] \notin {"table", "figure"}
                        /\ \E o \in CallsAt(i) : o.fn = "ocr" /\ o.ok /\ o.out # <<>>
            /\ CleanReturned =>
                  Cardinality({k \in 1..Len(calls) : calls[k].fn = "chat"}) =
                  Cardinality({i \in Walked :
                                 /\ clean_run.types[i] \notin {"table", "figure"}
                                 /\ i \notin Dropped})

\* C21 witness: a clean_text that returned after chats for two regions, with
\* a region whose OCR gave nothing.
C21_Witness ==
    /\ CleanReturned
    /\ \E c \in Range(clean_run.calls) : \E d \in Range(clean_run.calls) :
          c.fn = "chat" /\ d.fn = "chat" /\ c.at < d.at
    /\ Dropped # {}

\* C22: scale is monotone over the pooled coordinates: for two input
\* coordinates a <= b, from any boxes and any axes, the image of a is at most
\* the image of b; so every normalized box keeps xmin <= xmax and
\* ymin <= ymax.
C22_ScaleMonotone ==
    ScaleReturned =>
        LET in == input.boxes
            out == output.boxes
            n == Len(in)
        IN  /\ Len(out) = n
            /\ \A i \in 1..n : \A k \in 1..n : \A j \in 1..4 : \A l \in 1..4 :
                  in[i][j] <= in[k][l] => out[i][j] <= out[k][l]
            /\ \A i \in 1..n : out[i][1] <= out[i][3] /\ out[i][2] <= out[i][4]

\* C22 witness: two boxes scaled together, an edge of the one strictly
\* between two edges of the other, before and after.
C22_Witness ==
    /\ ScaleReturned
    /\ Len(input.boxes) = 2
    /\ input.boxes[1][1] < input.boxes[2][1] /\ input.boxes[2][1] < input.boxes[1][3]
    /\ output.boxes[1][1] < output.boxes[2][1] /\ output.boxes[2][1] < output.boxes[1][3]

\* C23: a clip has the dimensions of the page image, equals the page image
\* at every pixel of rows [ymin, ymax) and columns [xmin, xmax), and is zero
\* at every other pixel; the page image is left as it was.
C23_ClipIsMaskedCrop ==
    (input.fn = "clip" /\ output.done) =>
        LET img == input.img
            b == input.box
        IN  /\ output.img = img
            /\ Len(output.clip) = Len(img)
            /\ \A y \in 1..Len(img) :
                  /\ Len(output.clip[y]) = Len(img[y])
                  /\ \A x \in 1..Len(img[y]) :
                        output.clip[y][x] =
                            IF b[2] <= y - 1 /\ y - 1 < b[4] /\ b[1] <= x - 1 /\ x - 1 < b[3]
                            THEN img[y][x] ELSE 0

\* C23 witness: a clip of a box with area that leaves part of the page out:
\* a pixel kept and a non-zero pixel zeroed.
C23_Witness ==
    /\ input.fn = "clip" /\ output.done
    /\ \E y \in 1..ImgSide : \E x \in 1..ImgSide :
          output.clip[y][x] # 0 /\ output.clip[y][x] = input.img[y][x]
    /\ \E y \in 1..ImgSide : \E x \in 1..ImgSide :
          output.clip[y][x] = 0 /\ input.img[y][x] # 0

\* obj_orders is a bijection on [0, n)
IsBijection(obj_orders, n) ==
    /\ Len(obj_orders) = n
    /\ \A i \in 1..n : obj_orders[i] \in 0..(n - 1)
    /\ \A i \in 1..n : \A j \in 1..n : i # j => obj_orders[i] # obj_orders[j]

\* how many positions of the two lists hold this (type, box) pair
Occurrences(types, boxes, pair) ==
    Cardinality({i \in 1..Len(types) : <<types[i], boxes[i]>> = pair})

\* C24: on every page whose order list is a bijection on [0, N), arranging
\* loses and duplicates no region and keeps type and box paired: position i
\* of aranged_types and of aranged_boxes both come from detected region
\* obj_orders[i], and every (type, box) pair occurs as often arranged as
\* detected.
C24_ArrangeKeepsPairs ==
    predict_run.ran =>
        \A k \in 1..Len(predict_run.pages) :
            LET pg == predict_run.pages[k]
                n == Len(pg.obj_types)
            IN  IsBijection(pg.obj_orders, n) =>
                  /\ Len(pg.obj_boxes) = n
                  /\ Len(pg.aranged_types) = n
                  /\ Len(pg.aranged_boxes) = n
                  /\ \A i \in 1..n :
                        /\ pg.aranged_types[i] = pg.obj_types[pg.obj_orders[i] + 1]
                        /\ pg.aranged_boxes[i] = pg.obj_boxes[pg.obj_orders[i] + 1]
                  /\ \A i \in 1..n :
                        LET pair == <<pg.obj_types[i], pg.obj_boxes[i]>>
                        IN  Occurrences(pg.aranged_types, pg.aranged_boxes, pair)
                              = Occurrences(pg.obj_types, pg.obj_boxes, pair)
                  /\ \A i \in 1..n :
                        \E r \in 1..n : <<pg.aranged_types[i], pg.aranged_boxes[i]>>
                                            = <<pg.obj_types[r], pg.obj_boxes[r]>>

\* C24 witness: a page of three regions of more than one type arranged by a
\* bijection that moves every region.
C24_Witness ==
    /\ predict_run.ran
    /\ \E k \in 1..Len(predict_run.pages) :
          LET pg == predict_run.pages[k]
          IN  /\ Len(pg.obj_types) = 3
              /\ IsBijection(pg.obj_orders, 3)
              /\ \A i \in 1..3 : pg.obj_orders[i] # i - 1
              /\ Cardinality(Range(pg.obj_types)) >= 2

\* the OCR or chat call of the last clean_text that raised
FailedCalls == {c \in Range(clean_run.calls) : c.fn \in {"ocr", "chat"} /\ ~c.ok}

\* the last call was a clean_text in which the OCR or the chat call raised
CleanTextFailed == ret.op = "clean_text" /\ clean_run.ran /\ FailedCalls # {}

\* C25: when the OCR call or the chat call raises for a region, clean_text
\* raises too, returns no fragment list and does not run load_models: the
\* model attributes are what they were before the call, so models that were
\* offloaded stay offloaded, and a predict that comes next fails on the
\* missing model without processing a page.
C25_CleanTextFailureLeavesOffloaded ==
    [][/\ CleanTextFailed' =>
             /\ clean_run'.raised
             /\ ret' = Raised("clean_text")
             /\ attrs' = attrs
             /\ (OffloadedAttrs \cap attrs = {}) => (OffloadedAttrs \cap attrs' = {})
       /\ (CleanTextFailed /\ OffloadedAttrs \cap attrs = {} /\ predict_run'.ran) =>
             /\ predict_run'.raised
             /\ predict_run'.failed = "attribute"
             /\ predict_run'.pages = <<>>
             /\ ret'.outcome = "raised"]_vars

\* C25 witness: a clean_text called with the models offloaded whose OCR
\* call raised on a region after an earlier region had been cleaned.
C25_Witness ==
    /\ CleanTextFailed
    /\ OffloadedAttrs \cap attrs = {}
    /\ \E c \in FailedCalls : c.fn = "ocr" /\ c.at >= 2
    /\ clean_run.txt_list # <<>>

\* C26: once the object is constructed, the OCR model and the text formater
\* are present in every state, whatever calls follow; no clean_text and no
\* translate fails for a missing model, with the heavy models loaded or
\* offloaded; load_models returns in every state and leaves every model
\* loaded; offload_models called with the heavy models already offloaded
\* raises and changes nothing.
C26_OcrAndFormaterAlwaysPresent ==
    /\ [](/\ Constructed => {"ocr_model", "text_formater"} \subseteq attrs
          /\ clean_run.ran => clean_run.failed # "attribute"
          /\ translate_run.ran => translate_run.failed # "attribute"
          /\ ret.op = "load_models" =>
                ret.outcome = "returned" /\ LoadedAttrs \subseteq attrs)
    /\ [][/\ Constructed => (Constructed' /\ "ocr_model" \in attrs')
          /\ (ret'.op = "offload_models" /\ OffloadedAttrs \cap attrs = {}) =>
                (ret'.outcome = "raised" /\ attrs' = attrs)
          /\ (ret'.op = "offload_models" /\ OffloadedAttrs \subseteq attrs) =>
                (ret'.outcome = "returned" /\ attrs' = attrs \ OffloadedAttrs)]_vars

\* C26 witness: a translate that returned while the heavy models were
\* offloaded.
C26_Witness ==
    /\ ret.op = "translate" /\ ret.outcome = "returned"
    /\ OffloadedAttrs \cap attrs = {}
    /\ {"ocr_model", "text_formater"} \subseteq attrs

\* the chat calls of the last translate
TranslateChats == SelectSeq(translate_run.calls, LAMBDA c : c.fn = "chat")

\* both languages are given and they differ
LanguagesGiven ==
    /\ translate_run.current_language # translate_run.target_language
    /\ translate_run.current_language # None
    /\ translate_run.target_language # None

\* C29: with the formater that has get_prompt, translate called with two
\* given, different languages sends one chat request, the translate
\* instruction for the two languages followed by the text, and returns the
\* answer; called with equal languages or with a language that is None it
\* raises without a chat request and returns nothing; get_prompt called
\* with a task_type that is neither clean_text nor translate raises.
C29_TranslatePromptOrRaise ==
    /\ (ret.op = "translate" /\ platform = "gemini" /\ LanguagesGiven) =>
          /\ Len(TranslateChats) = 1
          /\ TranslateChats[1].arg =
                TranslatePrompt(translate_run.current_language,
                                translate_run.target_language) \o translate_run.text
          /\ TranslateChats[1].ok => ret = Returned("translate", TranslateChats[1].out)
          /\ ~TranslateChats[1].ok => ret = Raised("translate")
    /\ (ret.op = "translate" /\ platform = "gemini" /\ ~LanguagesGiven) =>
          /\ ret = Raised("translate")
          /\ TranslateChats = <<>>
    /\ (ret.op = "get_prompt" /\ platform = "gemini"
           /\ translate_run.task_type \notin {"clean_text", "translate"}) =>
          ret = Raised("get_prompt")

\* C29 witness: a translate from a language to the same language that
\* raised after get_prompt alone had been called.
C29_Witness ==
    /\ ret = Raised("translate")
    /\ platform = "gemini"
    /\ translate_run.current_language = translate_run.target_language
    /\ Len(translate_run.calls) = 1
    /\ translate_run.calls[1].fn = "get_prompt"

\* the last predict raised inside the loop over the pages: in the detector,
\* the normalizer or the order model
FailedPartWay == predict_run.ran /\ predict_run.failed \in {"detector", "order"}

\* C27: a predict in which the detector, the normalizer or the order model
\* raises on some page publishes nothing: self.types and self.clips are
\* what they were before the call, the call raises instead of returning,
\* and offload_models is not run, so every model is still loaded.
C27_FailedPredictPublishesNothing ==
    [][FailedPartWay' =>
          /\ self_types' = self_types
          /\ self_clips' = self_clips
          /\ ret'.outcome = "raised"
          /\ ret'.value = <<>>
          /\ ~predict_run'.published
          /\ attrs' = attrs
          /\ LoadedAttrs \subseteq attrs']_vars

\* C27 witness: a predict that raised after it had processed a page with
\* regions, on an object that holds the lists of an earlier predict.
C27_Witness ==
    /\ FailedPartWay
    /\ ret = Raised("predict")
    /\ predict_run.types # <<>>
    /\ self_types.set /\ self_clips.set
    /\ self_types.v # predict_run.types

\* positions among the pages to process of the pages without a region
EmptyPages == {k \in 1..Len(PagesToProcess) : pdf[PagesToProcess[k].page] = <<>>}

\* C28: a predict that gets to a page on which the detector finds no region
\* does not skip the page: the normalizer raises on the empty box list and
\* predict raises, returning no region of any page and publishing nothing,
\* the pages before that one included.
C28_EmptyPageAbortsPredict ==
    (predict_run.ran /\ predict_run.failed # "attribute" /\ EmptyPages # {}) =>
        /\ predict_run.raised
        /\ ret.outcome = "raised"
        /\ ret.value = <<>>
        /\ ~predict_run.published
        /\ Len(predict_run.pages) < SetMin(EmptyPages)
        /\ predict_run.failed = "order" => Len(predict_run.pages) = SetMin(EmptyPages) - 1

\* C28 witness: a predict that processed a page with regions and raised in
\* the normalizer on the next page, which has none.
C28_Witness ==
    /\ predict_run.ran
    /\ predict_run.failed = "order"
    /\ predict_run.types # <<>>
    /\ Len(predict_run.pages) + 1 \in EmptyPages
    /\ ret.outcome = "raised"

-----------------------------------------------------------------------------
(* Claims about md_text_iter (SpecFn).                                     *)

\* C30: with batch_size >= 1, md_text_iter yields no empty batch; every
\* batch but the last has batch_size lines and the last has between 1 and
\* batch_size; the batches put end to end are the lines of the file, each
\* stripped, in file order; an empty file yields no batch.
C30_BatchesPartitionLines ==
    (input.fn = "md_text_iter" /\ output.done /\ input.batch_size >= 1) =>
        LET bs == output.batches
            n == Len(bs)
        IN  /\ \A k \in 1..n : Len(bs[k]) \in 1..input.batch_size
            /\ \A k \in 1..(n - 1) : Len(bs[k]) = input.batch_size
            /\ Flatten(bs) = List([i \in 1..Len(input.lines) |-> Strip(input.lines[i])],
                                  Len(input.lines))
            /\ input.lines = <<>> => bs = <<>>

\* C30 witness: a file of three lines read two at a time: a full batch and
\* a last batch of one line, with a line that strip changed on both sides.
C30_Witness ==
    /\ input.fn = "md_text_iter" /\ output.done
    /\ input.batch_size = 2
    /\ Len(input.lines) = 3
    /\ Len(output.batches) = 2
    /\ Len(output.batches[2]) = 1
    /\ \E i \in 1..3 : Len(Strip(input.lines[i])) + 2 <= Len(input.lines[i])

=============================================================================
